---- MODULE Spec2Model ----
(***************************************************************************)
(* EventKampus backend (api/index.js): the registration ledger.            *)
(*                                                                         *)
(* The Express handlers are async functions; every `await` of a database   *)
(* query or of a payment-gateway call is a point where another request may *)
(* run.  POST /api/events/:eventId/register is therefore modelled as one   *)
(* action per awaited step, for several requests in flight at once.  The   *)
(* payment notification endpoint and confirm-payment write the ledger in a *)
(* single UPDATE that depends on nothing read before it, so each is one    *)
(* action.                                                                 *)
(***************************************************************************)
EXTENDS Integers, Sequences, FiniteSets

\* Number of register requests the model lets arrive (in flight together or
\* one after the other).
MaxReq == 2

VARIABLES
    Event,          \* the "Event" table: row id = index
    TiketTipe,      \* the "TiketTipe" table: row id = index
    apiReq,         \* the latest request to a protected route, as it arrived
    apiRes,         \* response to that request
    Registrasi,     \* the "Registrasi" table: row id = index, rows are never deleted
                    \* (qr_code_unik is written once and read by no handler below)
    req,            \* the register requests: position in the handler, locals, response
    orders,         \* registration ids for which the gateway holds an order (ORDER-<id>-<ts>)
    lastResponse,   \* response of the latest notification / confirm-payment request
    trip,           \* one order id on its way from register to the notification handler
    client,         \* the browser client: token storage, request in flight, what it showed
    accounts,       \* the "User" table as the auth routes write it: row id = index
    hits,           \* requests authLimiter has counted in the current window
    authReq,        \* the latest request to an auth route, as it arrived
    authRes,        \* response to that request
    everLunas,      \* history: ids of the rows that have been LUNAS
    qrs             \* history: the clock and the qr_code_unik of every row

catalogVars == <<Event, TiketTipe, apiReq, apiRes>>

ledgerVars == <<Registrasi, req, orders, lastResponse>>

vars ==
    <<Event, TiketTipe, apiReq, apiRes, Registrasi, req, orders, lastResponse,
      trip, client, accounts, hits, authReq, authRes, everLunas, qrs>>

authVars == <<accounts, hits, authReq, authRes>>

historyVars == <<everLunas, qrs>>

----------------------------------------------------------------------------
\* The "User" table: two attendees and two organizations.
User ==
    [u \in 1..4 |-> [role |-> IF u \in {1, 2} THEN "PESERTA" ELSE "ORGANISASI"]]

\* The catalog the ledger endpoints run against, as POST /api/events and
\* POST /api/events/:eventId/tickets leave it after four requests: event 1 is
\* owned by organization 3, event 2 by 4; event 1 has a free ticket type with
\* two places and a paid one with a single place; event 2 has none yet.
SeededEvent ==
    <<[created_by_user_id |-> 3], [created_by_user_id |-> 4]>>

SeededTiketTipe ==
    <<[event_id |-> 1, harga |-> 0, kuota |-> 2],
      [event_id |-> 1, harga |-> 50000, kuota |-> 1]>>

StatusPembayaran == {"PENDING", "LUNAS", "BATAL"}

\* transaction_status values of the gateway; "refund" stands for every value
\* the handler has no branch for.
TransactionStatus ==
    {"capture", "settlement", "pending", "cancel", "deny", "expire", "refund"}

FraudStatus == {"accept", "challenge"}

\* req.user.userId of the callers of register.
Registrants == {u \in DOMAIN User : User[u].role = "PESERTA"}

RowIds == DOMAIN Registrasi

NoResponse == [http |-> 0, message |-> "none"]

IdleReq ==
    [pc |-> "idle", userId |-> 0, eventId |-> 0, tiket_tipe_id |-> 0,
     pendaftaranBaru |-> 0, gatewayCalls |-> 0, paymentToken |-> FALSE,
     isFree |-> FALSE, res |-> NoResponse]

----------------------------------------------------------------------------
\* Queries of the register handler.

\* tiketQuery without its AND tt.event_id = $2.
TiketQueryAnyEvent(tiket_tipe_id, eventId) ==
    {t \in DOMAIN TiketTipe :
        t = tiket_tipe_id /\ TiketTipe[t].event_id \in DOMAIN Event}

\* tiketQuery: the ticket type joined with its event, for the event of the URL.
TiketQuery(tiket_tipe_id, eventId) ==
    {t \in DOMAIN TiketTipe :
        /\ t = tiket_tipe_id
        /\ TiketTipe[t].event_id \in DOMAIN Event
        /\ TiketTipe[t].event_id = eventId}

\* registrasiCheckQuery: rows of this user for this event.
RegistrasiCheckQuery(userId, eventId) ==
    {i \in RowIds :
        Registrasi[i].user_id = userId /\ Registrasi[i].event_id = eventId}

\* countQuery: SELECT COUNT(*) FROM "Registrasi" WHERE tiket_tipe_id = $1.
CountQuery(tiket_tipe_id) ==
    Cardinality({i \in RowIds : Registrasi[i].tiket_tipe_id = tiket_tipe_id})

\* The capacity test written with > in place of >=.
SoldOutOffByOne(jumlahTerdaftar, kuota) == jumlahTerdaftar > kuota

\* if (jumlahTerdaftar >= tiketData.kuota)
SoldOut(jumlahTerdaftar, kuota) == jumlahTerdaftar >= kuota

ResTiketInvalid ==
    [http |-> 404, message |-> "Tipe tiket tidak valid untuk event ini"]

ResSudahTerdaftar ==
    [http |-> 400, message |-> "Anda sudah terdaftar di event ini"]

\* The sold-out answer sent with status 409.
ResTiketHabis409 ==
    [http |-> 409, message |-> "Maaf, tiket untuk tipe ini sudah habis"]

ResTiketHabis ==
    [http |-> 400, message |-> "Maaf, tiket untuk tipe ini sudah habis"]

ResRegisterCreated(harga) ==
    [http |-> 201,
     message |-> IF harga > 0
                 THEN "Pendaftaran berhasil! Silakan selesaikan pembayaran."
                 ELSE "Pendaftaran berhasil!"]

ResServerError == [http |-> 500, message |-> "Terjadi kesalahan pada server"]

Respond(r, res) == [req EXCEPT ![r].pc = "done", ![r].res = res]

----------------------------------------------------------------------------
\* No order id under way.
NoTrip ==
    [pc |-> "none", id |-> 0, now |-> 0, order_id |-> <<>>,
     registrasiId |-> <<>>, updated |-> {}]

\* The client after page load with empty localStorage.
FreshClient ==
    [pc |-> "idle", flow |-> "none",
     token |-> [kind |-> "none", userId |-> 0, exp |-> "none"],
     refreshToken |-> FALSE, res |-> [http |-> 0, expired |-> FALSE],
     refreshCalls |-> 0, error |-> "none", user |-> 0]

NoApiRequest ==
    [route |-> "none", token |-> [kind |-> "none", userId |-> 0, exp |-> "none"],
     eventId |-> 0, bodyValid |-> FALSE]

NoApiResponse ==
    [route |-> "none", http |-> 0, message |-> "none", expired |-> FALSE]

NoRefreshToken == [kind |-> "none", userId |-> 0, exp |-> "none"]

NoAccessToken == [kind |-> "none", userId |-> 0, role |-> "none"]

NoUser == [id |-> 0, email |-> <<>>, role |-> "none"]

\* Strings the auth routes look into (emails, passwords) are sequences of
\* characters.
NoAuthRequest ==
    [route |-> "none", email |-> <<>>, password |-> <<>>, namaLen |-> 0,
     role |-> "none", refreshToken |-> NoRefreshToken]

NoAuthResponse ==
    [http |-> 0, message |-> "none", token |-> NoAccessToken,
     refreshToken |-> NoRefreshToken, user |-> NoUser]

\* The "User" table with the four users of User, as POST /api/auth/register
\* leaves it after four requests.
SeededAccounts ==
    [u \in 1..4 |->
        [email |-> <<<<"a", "@", "k">>, <<"b", "@", "k">>, <<"h", "@", "k">>,
                     <<"e", "@", "k">>>>[u],
         password |-> [hashOf |-> <<"R", "a", "h", "a", "s", "i", "a", "1">>],
         role |-> User[u].role,
         present |-> TRUE]]

AccountsInit ==
    /\ accounts = SeededAccounts
    /\ hits = 0
    /\ authReq = NoAuthRequest
    /\ authRes = NoAuthResponse

\* No clock reading taken, no code written.
NoQrs ==
    [now |-> 0, qrCodeUnik |-> [r \in 1..MaxReq |-> <<>>], qr_code_unik |-> <<>>]

HistoryInit ==
    /\ everLunas = {}
    /\ qrs = NoQrs

\* The ledger before any registration.
LedgerInit ==
    /\ Registrasi = <<>>
    /\ req = [r \in 1..MaxReq |-> IdleReq]
    /\ orders = {}
    /\ lastResponse = [endpoint |-> "none", http |-> 0, message |-> "none",
                       status_pembayaran |-> "none"]

Init ==
    /\ Event = SeededEvent
    /\ TiketTipe = SeededTiketTipe
    /\ apiReq = NoApiRequest
    /\ apiRes = NoApiResponse
    /\ LedgerInit
    /\ trip = NoTrip
    /\ client = FreshClient
    /\ AccountsInit
    /\ HistoryInit

\* A register request arrives and runs tiketQuery.
RegisterTiketQuery(r, userId, eventId, tiket_tipe_id) ==
    /\ req[r].pc = "idle"
    /\ \A q \in 1..(r - 1) : req[q].pc # "idle"
    /\ LET started == [req[r] EXCEPT !.userId = userId, !.eventId = eventId,
                                     !.tiket_tipe_id = tiket_tipe_id]
       IN  IF TiketQuery(tiket_tipe_id, eventId) = {}
           THEN req' = [req EXCEPT ![r] = [started EXCEPT !.pc = "done",
                                                          !.res = ResTiketInvalid]]
           ELSE req' = [req EXCEPT ![r] = [started EXCEPT !.pc = "check"]]
    /\ UNCHANGED <<Registrasi, orders, lastResponse>>
    /\ UNCHANGED <<catalogVars, trip, client, authVars, historyVars>>

\* The duplicate check restricted to the ticket type of the request
\* (WHERE user_id = $1 AND event_id = $2 AND tiket_tipe_id = $3).
RegisterCheckPerTiket(r) ==
    /\ req[r].pc = "check"
    /\ IF \E i \in RegistrasiCheckQuery(req[r].userId, req[r].eventId) :
            Registrasi[i].tiket_tipe_id = req[r].tiket_tipe_id
       THEN req' = Respond(r, ResSudahTerdaftar)
       ELSE req' = [req EXCEPT ![r].pc = "count"]
    /\ UNCHANGED <<Registrasi, orders, lastResponse>>
    /\ UNCHANGED <<catalogVars, trip, client, authVars, historyVars>>

\* registrasiCheckQuery and the test on its result.
RegisterCheck(r) ==
    /\ req[r].pc = "check"
    /\ IF RegistrasiCheckQuery(req[r].userId, req[r].eventId) # {}
       THEN req' = Respond(r, ResSudahTerdaftar)
       ELSE req' = [req EXCEPT ![r].pc = "count"]
    /\ UNCHANGED <<Registrasi, orders, lastResponse>>
    /\ UNCHANGED <<catalogVars, trip, client, authVars, historyVars>>

\* countQuery and the capacity test.
CountStep(r) ==
    /\ req[r].pc = "count"
    /\ IF SoldOut(CountQuery(req[r].tiket_tipe_id),
                  TiketTipe[req[r].tiket_tipe_id].kuota)
       THEN req' = Respond(r, ResTiketHabis)
       ELSE req' = [req EXCEPT ![r].pc = "insert"]
    /\ UNCHANGED <<Registrasi, orders, lastResponse>>
    /\ UNCHANGED <<catalogVars, trip, client, authVars, everLunas>>

\* countQuery and the capacity test, as a step of the ledger.
RegisterCount(r) ==
    CountStep(r) /\ UNCHANGED qrs

\* The insert step with the payment branch taken for harga >= 0.
RegisterInsertAlwaysPays(r) ==
    /\ req[r].pc = "insert"
    /\ Registrasi' = Append(Registrasi,
            [event_id |-> req[r].eventId, user_id |-> req[r].userId,
             tiket_tipe_id |-> req[r].tiket_tipe_id,
             status_pembayaran |-> "PENDING"])
    /\ req' = [req EXCEPT ![r].pendaftaranBaru = Len(Registrasi) + 1,
                          ![r].pc = "snap"]
    /\ UNCHANGED <<orders, lastResponse>>
    /\ UNCHANGED <<catalogVars, trip, client, authVars, historyVars>>

\* The insert step writing LUNAS for a free ticket type.
RegisterInsertFreeIsLunas(r) ==
    /\ req[r].pc = "insert"
    /\ LET harga == TiketTipe[req[r].tiket_tipe_id].harga
           inserted == [req[r] EXCEPT !.pendaftaranBaru = Len(Registrasi) + 1]
       IN  /\ Registrasi' = Append(Registrasi,
                [event_id |-> req[r].eventId, user_id |-> req[r].userId,
                 tiket_tipe_id |-> req[r].tiket_tipe_id,
                 status_pembayaran |-> IF harga > 0 THEN "PENDING" ELSE "LUNAS"])
           /\ IF harga > 0
              THEN req' = [req EXCEPT ![r] = [inserted EXCEPT !.pc = "snap"]]
              ELSE req' = [req EXCEPT ![r] = [inserted EXCEPT
                               !.pc = "done", !.isFree = (harga = 0),
                               !.res = ResRegisterCreated(harga)]]
    /\ UNCHANGED <<orders, lastResponse>>
    /\ UNCHANGED <<catalogVars, trip, client, authVars, historyVars>>

\* insertRegistrasiQuery; a free ticket type is answered right away.
InsertStep(r) ==
    /\ req[r].pc = "insert"
    /\ Registrasi' = Append(Registrasi,
            [event_id |-> req[r].eventId, user_id |-> req[r].userId,
             tiket_tipe_id |-> req[r].tiket_tipe_id,
             status_pembayaran |-> "PENDING"])
    /\ LET harga == TiketTipe[req[r].tiket_tipe_id].harga
           inserted == [req[r] EXCEPT !.pendaftaranBaru = Len(Registrasi) + 1]
       IN  IF harga > 0
           THEN req' = [req EXCEPT ![r] = [inserted EXCEPT !.pc = "snap"]]
           ELSE req' = [req EXCEPT ![r] = [inserted EXCEPT
                            !.pc = "done", !.isFree = (harga = 0),
                            !.res = ResRegisterCreated(harga)]]
    /\ UNCHANGED <<orders, lastResponse>>
    /\ UNCHANGED <<catalogVars, trip, client, authVars, everLunas>>

\* insertRegistrasiQuery, as a step of the ledger.
RegisterInsert(r) ==
    InsertStep(r) /\ UNCHANGED qrs

\* The gateway step with a compensation in the catch block: the row just
\* inserted is marked BATAL when createTransaction throws.
RegisterSnapCancelsOnFailure(r, gatewayOk) ==
    /\ req[r].pc = "snap"
    /\ IF gatewayOk
       THEN /\ orders' = orders \cup {req[r].pendaftaranBaru}
            /\ Registrasi' = Registrasi
            /\ req' = [req EXCEPT ![r].pc = "done", ![r].gatewayCalls = @ + 1,
                          ![r].paymentToken = TRUE,
                          ![r].isFree =
                                (TiketTipe[req[r].tiket_tipe_id].harga = 0),
                          ![r].res = ResRegisterCreated(
                                        TiketTipe[req[r].tiket_tipe_id].harga)]
       ELSE /\ orders' = orders
            /\ Registrasi' = [Registrasi EXCEPT
                    ![req[r].pendaftaranBaru].status_pembayaran = "BATAL"]
            /\ req' = [req EXCEPT ![r].pc = "done", ![r].gatewayCalls = @ + 1,
                          ![r].res = ResServerError]
    /\ UNCHANGED lastResponse
    /\ UNCHANGED <<catalogVars, trip, client, authVars, historyVars>>

\* snap.createTransaction for a paid ticket type: the gateway answers with a
\* token, or the call throws and the catch block answers 500.
RegisterSnap(r, gatewayOk) ==
    /\ req[r].pc = "snap"
    /\ IF gatewayOk
       THEN /\ orders' = orders \cup {req[r].pendaftaranBaru}
            /\ req' = [req EXCEPT ![r].pc = "done", ![r].gatewayCalls = @ + 1,
                          ![r].paymentToken = TRUE,
                          ![r].isFree =
                                (TiketTipe[req[r].tiket_tipe_id].harga = 0),
                          ![r].res = ResRegisterCreated(
                                        TiketTipe[req[r].tiket_tipe_id].harga)]
       ELSE /\ orders' = orders
            /\ req' = [req EXCEPT ![r].pc = "done", ![r].gatewayCalls = @ + 1,
                          ![r].res = ResServerError]
    /\ UNCHANGED <<Registrasi, lastResponse>>
    /\ UNCHANGED <<catalogVars, trip, client, authVars, historyVars>>

\* Any awaited database query of the handler may reject; the catch block
\* answers 500.  A rejected INSERT inserts nothing.
RegisterThrow(r) ==
    /\ req[r].pc \in {"check", "count", "insert"}
    /\ req' = Respond(r, ResServerError)
    /\ UNCHANGED <<Registrasi, orders, lastResponse>>
    /\ UNCHANGED <<catalogVars, trip, client, authVars, historyVars>>

----------------------------------------------------------------------------
\* POST /api/payment/notification

\* The mapping with 'deny' left out of the cancelling statuses.
NewStatusDenyForgotten(transactionStatus, fraudStatus) ==
    IF transactionStatus = "capture"
    THEN (IF fraudStatus = "accept" THEN "LUNAS" ELSE "PENDING")
    ELSE IF transactionStatus = "settlement" THEN "LUNAS"
    ELSE IF transactionStatus \in {"cancel", "expire"} THEN "BATAL"
    ELSE "PENDING"

\* The newStatus mapping of the notification handler.
NewStatus(transactionStatus, fraudStatus) ==
    IF transactionStatus = "capture"
    THEN (IF fraudStatus = "accept" THEN "LUNAS" ELSE "PENDING")
    ELSE IF transactionStatus = "settlement" THEN "LUNAS"
    ELSE IF transactionStatus \in {"cancel", "deny", "expire"} THEN "BATAL"
    ELSE IF transactionStatus = "pending" THEN "PENDING"
    ELSE "PENDING"

\* UPDATE "Registrasi" SET status_pembayaran = $1 WHERE id = $2
UpdateStatus(registrasiId, newStatus) ==
    [i \in RowIds |->
        IF i = registrasiId
        THEN [Registrasi[i] EXCEPT !.status_pembayaran = newStatus]
        ELSE Registrasi[i]]

\* Status the handler answers the gateway with: 200 after the UPDATE, 500 from
\* the catch block when the verification, the parsing of order_id or the
\* UPDATE throws.
NotificationHttp(failure) == IF failure = "none" THEN 200 ELSE 500

NotificationFailure == {"none", "verify", "parse", "db"}

\* An order id whose second field names no row of "Registrasi".
NoSuchRow == 0

\* The notification handler with an UPDATE that touches PENDING rows only
\* (WHERE id = $2 AND status_pembayaran = 'PENDING').
NotificationHandlerPendingOnly(registrasiId, transactionStatus, fraudStatus, failure) ==
    /\ IF failure = "none" /\ registrasiId \in RowIds
          /\ Registrasi[registrasiId].status_pembayaran = "PENDING"
       THEN Registrasi' = UpdateStatus(registrasiId,
                               NewStatus(transactionStatus, fraudStatus))
       ELSE Registrasi' = Registrasi
    /\ lastResponse' = [endpoint |-> "notification",
                        http |-> NotificationHttp(failure),
                        message |-> IF failure = "none"
                                    THEN "Notification received"
                                    ELSE "Error processing notification",
                        status_pembayaran |-> "none"]
    /\ UNCHANGED <<req, orders>>
    /\ UNCHANGED <<catalogVars, trip, client, authVars, qrs>>

\* One notification: registrasiId is the row id split('-')[1] yields from the
\* verified order_id.
NotificationHandler(registrasiId, transactionStatus, fraudStatus, failure) ==
    /\ IF failure = "none"
       THEN Registrasi' = UpdateStatus(registrasiId,
                               NewStatus(transactionStatus, fraudStatus))
       ELSE Registrasi' = Registrasi
    /\ lastResponse' = [endpoint |-> "notification",
                        http |-> NotificationHttp(failure),
                        message |-> IF failure = "none"
                                    THEN "Notification received"
                                    ELSE "Error processing notification",
                        status_pembayaran |-> "none"]
    /\ UNCHANGED <<req, orders>>
    /\ UNCHANGED <<catalogVars, trip, client, authVars, qrs>>

\* One notification, as a step of the ledger.
PaymentNotification(registrasiId, transactionStatus, fraudStatus, failure) ==
    NotificationHandler(registrasiId, transactionStatus, fraudStatus, failure) /\ UNCHANGED everLunas

----------------------------------------------------------------------------
\* PATCH /api/organisasi/confirm-payment/:registrasiId

\* requireRole letting every role through.
RequireRoleEveryone(allowedRoles, principal) == principal \in DOMAIN User

\* requireRole(allowedRoles): the role carried by the principal's token.
RequireRole(allowedRoles, principal) == User[principal].role \in allowedRoles

\* verificationQuery: the row joined with its event.
VerificationQuery(registrasiId) ==
    {i \in RowIds : i = registrasiId /\ Registrasi[i].event_id \in DOMAIN Event}

\* Answers of confirm-payment; the 200 body is the row the UPDATE returns.
ConfirmResponse(http, message, status_pembayaran) ==
    [endpoint |-> "confirm-payment", http |-> http, message |-> message,
     status_pembayaran |-> status_pembayaran]

ResRoleDenied ==
    ConfirmResponse(403, "Akses ditolak: Anda tidak memiliki izin", "none")

ResNotOwner ==
    ConfirmResponse(403,
        "Akses ditolak: Anda tidak berhak mengkonfirmasi pendaftaran ini",
        "none")

ResRegistrasiNotFound ==
    ConfirmResponse(404, "Data pendaftaran tidak ditemukan", "none")

\* confirm-payment whose UPDATE is restricted to PENDING rows
\* (WHERE id = $1 AND status_pembayaran = 'PENDING'): on a row that is not
\* PENDING no row is returned and the body carries no status.
ConfirmPaymentPendingOnly(principal, registrasiId) ==
    /\ IF ~RequireRole({"ORGANISASI"}, principal)
       THEN /\ lastResponse' = ResRoleDenied
            /\ Registrasi' = Registrasi
       ELSE IF VerificationQuery(registrasiId) = {}
       THEN /\ lastResponse' = ResRegistrasiNotFound
            /\ Registrasi' = Registrasi
       ELSE IF Event[Registrasi[registrasiId].event_id].created_by_user_id
                    # principal
       THEN /\ lastResponse' = ResNotOwner
            /\ Registrasi' = Registrasi
       ELSE IF Registrasi[registrasiId].status_pembayaran = "PENDING"
       THEN /\ Registrasi' = UpdateStatus(registrasiId, "LUNAS")
            /\ lastResponse' = ConfirmResponse(200, "none", "LUNAS")
       ELSE /\ Registrasi' = Registrasi
            /\ lastResponse' = ConfirmResponse(200, "none", "none")
    /\ UNCHANGED <<req, orders>>
    /\ UNCHANGED <<catalogVars, trip, client, authVars, historyVars>>

\* confirm-payment without the ownership test.
ConfirmPaymentAnyOrganisasi(principal, registrasiId) ==
    /\ IF ~RequireRole({"ORGANISASI"}, principal)
       THEN /\ lastResponse' = ResRoleDenied
            /\ Registrasi' = Registrasi
       ELSE IF VerificationQuery(registrasiId) = {}
       THEN /\ lastResponse' = ResRegistrasiNotFound
            /\ Registrasi' = Registrasi
       ELSE /\ Registrasi' = UpdateStatus(registrasiId, "LUNAS")
            /\ lastResponse' = ConfirmResponse(200, "none", "LUNAS")
    /\ UNCHANGED <<req, orders>>
    /\ UNCHANGED <<catalogVars, trip, client, authVars, historyVars>>

ConfirmPaymentHandler(principal, registrasiId) ==
    /\ IF ~RequireRole({"ORGANISASI"}, principal)
       THEN /\ lastResponse' = ResRoleDenied
            /\ Registrasi' = Registrasi
       ELSE IF VerificationQuery(registrasiId) = {}
       THEN /\ lastResponse' = ResRegistrasiNotFound
            /\ Registrasi' = Registrasi
       ELSE IF Event[Registrasi[registrasiId].event_id].created_by_user_id
                    # principal
       THEN /\ lastResponse' = ResNotOwner
            /\ Registrasi' = Registrasi
       ELSE /\ Registrasi' = UpdateStatus(registrasiId, "LUNAS")
            /\ lastResponse' = ConfirmResponse(200, "none",
                    UpdateStatus(registrasiId, "LUNAS")[registrasiId]
                        .status_pembayaran)
    /\ UNCHANGED <<req, orders>>
    /\ UNCHANGED <<catalogVars, trip, client, authVars, qrs>>

\* confirm-payment, as a step of the ledger.
ConfirmPayment(principal, registrasiId) ==
    ConfirmPaymentHandler(principal, registrasiId) /\ UNCHANGED everLunas

----------------------------------------------------------------------------
Next ==
    \/ \E r \in 1..MaxReq, u \in Registrants, e \in DOMAIN Event,
          t \in DOMAIN TiketTipe : RegisterTiketQuery(r, u, e, t)
    \/ \E r \in 1..MaxReq : RegisterCheck(r)
    \/ \E r \in 1..MaxReq : RegisterCount(r)
    \/ \E r \in 1..MaxReq : RegisterInsert(r)
    \/ \E r \in 1..MaxReq, ok \in BOOLEAN : RegisterSnap(r, ok)
    \/ \E r \in 1..MaxReq : RegisterThrow(r)
    \/ \E o \in orders \cup {NoSuchRow}, ts \in TransactionStatus,
          fs \in FraudStatus : PaymentNotification(o, ts, fs, "none")
    \* a notification that throws has the same outcome for every payload
    \/ \E f \in NotificationFailure \ {"none"} :
            PaymentNotification(NoSuchRow, "pending", "accept", f)
    \/ \E p \in DOMAIN User, id \in RowIds \cup {NoSuchRow} :
            ConfirmPayment(p, id)

Spec == Init /\ [][Next]_vars

----------------------------------------------------------------------------
\* Access control and the catalog routes.

\* Events and ticket types the catalog may hold.
MaxEvents == 1

MaxTikets == 1

\* Bearer tokens a request may carry: no Authorization header, a token whose
\* signature does not verify under JWT_SECRET, and tokens login signed for a
\* user, still valid or past their expiry.
NoToken == [kind |-> "none", userId |-> 0, exp |-> "none"]

ForgedToken == [kind |-> "forged", userId |-> 0, exp |-> "none"]

SignedTokens ==
    {[kind |-> "jwt", userId |-> u, exp |-> x] :
        u \in DOMAIN User, x \in {"fresh", "expired"}}

Tokens == {NoToken, ForgedToken} \cup SignedTokens

\* next(): the middleware hands the request on.
PassOn == [http |-> 0, message |-> "next", expired |-> FALSE]

ResTokenMissing ==
    [http |-> 401, message |-> "Akses ditolak: Token tidak ada",
     expired |-> FALSE]

ResTokenExpired == [http |-> 401, message |-> "Token expired", expired |-> TRUE]

ResTokenInvalid ==
    [http |-> 403, message |-> "Akses ditolak: Token tidak valid",
     expired |-> FALSE]

ResIzinDitolak ==
    [http |-> 403, message |-> "Akses ditolak: Anda tidak memiliki izin",
     expired |-> FALSE]

\* authenticateToken with an expired token taken for a valid one.
AuthenticateTokenIgnoresExpiry(token) ==
    IF token.kind = "none" THEN ResTokenMissing
    ELSE IF token.kind # "jwt" THEN ResTokenInvalid
    ELSE PassOn

\* authenticateToken: jwt.verify checks the signature, then the expiry.
AuthenticateToken(token) ==
    IF token.kind = "none" THEN ResTokenMissing
    ELSE IF token.kind # "jwt" THEN ResTokenInvalid
    ELSE IF token.exp = "expired" THEN ResTokenExpired
    ELSE PassOn

\* The middleware chain of a route: authenticateToken, then requireRole when
\* the route names roles (allowedRoles = {} stands for no requireRole).
Middleware(token, allowedRoles) ==
    IF AuthenticateToken(token) # PassOn THEN AuthenticateToken(token)
    ELSE IF allowedRoles # {} /\ ~RequireRole(allowedRoles, token.userId)
    THEN ResIzinDitolak
    ELSE PassOn

\* The answer of a route.
Answer(route, http, message) ==
    [route |-> route, http |-> http, message |-> message, expired |-> FALSE]

Refuse(route, m) ==
    [route |-> route, http |-> m.http, message |-> m.message,
     expired |-> m.expired]

\* The request as it arrived: route, bearer token, :eventId (0 on routes
\* without one) and whether the body passes the route's validators (FALSE on
\* routes without a body).
Request(route, token, eventId, bodyValid) ==
    [route |-> route, token |-> token, eventId |-> eventId,
     bodyValid |-> bodyValid]

\* Routes whose handlers are the ledger actions above, with the roles their
\* requireRole names.
LedgerRoutes ==
    [register |-> {}, confirmPayment |-> {"ORGANISASI"}, paymentStatus |-> {}]

\* express-validator on POST /api/events/:eventId/tickets.
TicketBodyValid(namaLen, harga, kuota) ==
    namaLen \in 3..100 /\ harga >= 0 /\ kuota >= 1

\* Request bodies of the tickets route: the free and the paid ticket with
\* either quota, and one body failing each validator.
TicketBodies ==
    {[namaLen |-> 3, harga |-> h, kuota |-> k] : h \in {0, 50000}, k \in {1, 2}}
    \cup {[namaLen |-> 2, harga |-> 0, kuota |-> 1],
          [namaLen |-> 101, harga |-> 0, kuota |-> 1],
          [namaLen |-> 3, harga |-> -1, kuota |-> 1],
          [namaLen |-> 3, harga |-> 0, kuota |-> 0]}

\* POST /api/events
CreateEvent(token, bodyValid) ==
    /\ apiReq' = Request("createEvent", token, 0, bodyValid)
    /\ LET m == Middleware(token, {"ORGANISASI"})
       IN  IF m # PassOn
           THEN apiRes' = Refuse("createEvent", m) /\ Event' = Event
           ELSE IF ~bodyValid
           THEN apiRes' = Answer("createEvent", 400, "Validasi gagal")
                /\ Event' = Event
           ELSE /\ Len(Event) < MaxEvents
                /\ Event' = Append(Event, [created_by_user_id |-> token.userId])
                /\ apiRes' = Answer("createEvent", 201, "created")
    /\ UNCHANGED TiketTipe
    /\ UNCHANGED <<ledgerVars, trip, client, authVars, historyVars>>

\* POST /api/events/:eventId/tickets without the ownership check.
AddTicketAnyOrganisasi(token, eventId, namaLen, harga, kuota) ==
    /\ apiReq' = Request("addTicket", token, eventId,
                         TicketBodyValid(namaLen, harga, kuota))
    /\ LET m == Middleware(token, {"ORGANISASI"})
       IN  IF m # PassOn
           THEN apiRes' = Refuse("addTicket", m) /\ TiketTipe' = TiketTipe
           ELSE IF ~TicketBodyValid(namaLen, harga, kuota)
           THEN apiRes' = Answer("addTicket", 400, "Validasi gagal")
                /\ TiketTipe' = TiketTipe
           ELSE IF eventId \notin DOMAIN Event
           THEN apiRes' = Answer("addTicket", 404, "Event tidak ditemukan")
                /\ TiketTipe' = TiketTipe
           ELSE /\ Len(TiketTipe) < MaxTikets
                /\ TiketTipe' = Append(TiketTipe,
                        [event_id |-> eventId, harga |-> harga, kuota |-> kuota])
                /\ apiRes' = Answer("addTicket", 201, "created")
    /\ UNCHANGED Event
    /\ UNCHANGED <<ledgerVars, trip, client, authVars, historyVars>>

\* POST /api/events/:eventId/tickets
AddTicket(token, eventId, namaLen, harga, kuota) ==
    /\ apiReq' = Request("addTicket", token, eventId,
                         TicketBodyValid(namaLen, harga, kuota))
    /\ LET m == Middleware(token, {"ORGANISASI"})
       IN  IF m # PassOn
           THEN apiRes' = Refuse("addTicket", m) /\ TiketTipe' = TiketTipe
           ELSE IF ~TicketBodyValid(namaLen, harga, kuota)
           THEN apiRes' = Answer("addTicket", 400, "Validasi gagal")
                /\ TiketTipe' = TiketTipe
           ELSE IF eventId \notin DOMAIN Event
           THEN apiRes' = Answer("addTicket", 404, "Event tidak ditemukan")
                /\ TiketTipe' = TiketTipe
           ELSE IF Event[eventId].created_by_user_id # token.userId
           THEN apiRes' = Answer("addTicket", 403,
                            "Akses ditolak: Anda bukan pemilik event ini")
                /\ TiketTipe' = TiketTipe
           ELSE /\ Len(TiketTipe) < MaxTikets
                /\ TiketTipe' = Append(TiketTipe,
                        [event_id |-> eventId, harga |-> harga, kuota |-> kuota])
                /\ apiRes' = Answer("addTicket", 201, "created")
    /\ UNCHANGED Event
    /\ UNCHANGED <<ledgerVars, trip, client, authVars, historyVars>>

\* GET /api/organisasi/my-events
MyEvents(token) ==
    /\ apiReq' = Request("myEvents", token, 0, FALSE)
    /\ LET m == Middleware(token, {"ORGANISASI"})
       IN  IF m # PassOn
           THEN apiRes' = Refuse("myEvents", m)
           ELSE apiRes' = Answer("myEvents", 200, "rows")
    /\ UNCHANGED <<Event, TiketTipe>>
    /\ UNCHANGED <<ledgerVars, trip, client, authVars, historyVars>>

\* GET /api/organisasi/my-events/:eventId/attendees
Attendees(token, eventId) ==
    /\ apiReq' = Request("attendees", token, eventId, FALSE)
    /\ LET m == Middleware(token, {"ORGANISASI"})
       IN  IF m # PassOn
           THEN apiRes' = Refuse("attendees", m)
           ELSE IF eventId \notin DOMAIN Event
           THEN apiRes' = Answer("attendees", 404, "Event tidak ditemukan")
           ELSE IF Event[eventId].created_by_user_id # token.userId
           THEN apiRes' = Answer("attendees", 403,
                            "Akses ditolak: Anda bukan pemilik event ini")
           ELSE apiRes' = Answer("attendees", 200, "rows")
    /\ UNCHANGED <<Event, TiketTipe>>
    /\ UNCHANGED <<ledgerVars, trip, client, authVars, historyVars>>

\* GET /api/peserta/my-registrations
MyRegistrations(token) ==
    /\ apiReq' = Request("myRegistrations", token, 0, FALSE)
    /\ LET m == Middleware(token, {"PESERTA"})
       IN  IF m # PassOn
           THEN apiRes' = Refuse("myRegistrations", m)
           ELSE apiRes' = Answer("myRegistrations", 200, "rows")
    /\ UNCHANGED <<Event, TiketTipe>>
    /\ UNCHANGED <<ledgerVars, trip, client, authVars, historyVars>>

\* The middleware in front of register, confirm-payment and payment/status:
\* it answers itself, or hands the request to the handler.
LedgerRoute(route, token) ==
    /\ apiReq' = Request(route, token, 0, FALSE)
    /\ apiRes' = Refuse(route, Middleware(token, LedgerRoutes[route]))
    /\ UNCHANGED <<Event, TiketTipe>>
    /\ UNCHANGED <<ledgerVars, trip, client, authVars, historyVars>>

\* An event id no row of "Event" has.
NoSuchEvent == 0

EventIds == DOMAIN Event \cup {NoSuchEvent}

ApiInit ==
    /\ Event = <<>>
    /\ TiketTipe = <<>>
    /\ apiReq = NoApiRequest
    /\ apiRes = NoApiResponse
    /\ LedgerInit
    /\ trip = NoTrip
    /\ client = FreshClient
    /\ AccountsInit
    /\ HistoryInit

ApiNext ==
    \/ \E tk \in Tokens, v \in BOOLEAN : CreateEvent(tk, v)
    \/ \E tk \in Tokens, e \in EventIds, b \in TicketBodies :
            AddTicket(tk, e, b.namaLen, b.harga, b.kuota)
    \/ \E tk \in Tokens : MyEvents(tk)
    \/ \E tk \in Tokens, e \in EventIds : Attendees(tk, e)
    \/ \E tk \in Tokens : MyRegistrations(tk)
    \/ \E rt \in DOMAIN LedgerRoutes, tk \in Tokens : LedgerRoute(rt, tk)

ApiSpec == ApiInit /\ [][ApiNext]_vars

----------------------------------------------------------------------------
\* Vocabulary of the properties.

\* Rows of a ticket type that are not cancelled.
NonCancelled(t) ==
    {i \in RowIds : Registrasi[i].tiket_tipe_id = t
                    /\ Registrasi[i].status_pembayaran # "BATAL"}

\* All rows of a ticket type, cancelled or not.
RowsOfTiket(t) == {i \in RowIds : Registrasi[i].tiket_tipe_id = t}

\* The user already has a row for the event.
HasRow(userId, eventId) ==
    \E i \in RowIds : Registrasi[i].user_id = userId
                      /\ Registrasi[i].event_id = eventId

\* Request r takes a step of its handler.
Steps(r) == req'[r] # req[r]

\* Rows are never deleted and keep their user, event and ticket type.
RowsPersist ==
    \A i \in RowIds :
        /\ i \in DOMAIN Registrasi'
        /\ Registrasi'[i].user_id = Registrasi[i].user_id
        /\ Registrasi'[i].event_id = Registrasi[i].event_id
        /\ Registrasi'[i].tiket_tipe_id = Registrasi[i].tiket_tipe_id

\* C1: in every reachable state the number of non-cancelled rows of a ticket
\* type is at most its kuota.
C1_QuotaNeverExceeded ==
    \A t \in DOMAIN TiketTipe : Cardinality(NonCancelled(t)) <= TiketTipe[t].kuota

\* C2: two register requests of different users for a ticket type with
\* kuota = 1 never both answer 201.
C2_NeverBothSucceed ==
    \A r1, r2 \in 1..MaxReq :
        ( /\ r1 # r2
          /\ req[r1].pc = "done" /\ req[r2].pc = "done"
          /\ req[r1].userId # req[r2].userId
          /\ req[r1].tiket_tipe_id = req[r2].tiket_tipe_id
          /\ req[r1].tiket_tipe_id \in DOMAIN TiketTipe
          /\ TiketTipe[req[r1].tiket_tipe_id].kuota = 1 )
        => ~(req[r1].res.http = 201 /\ req[r2].res.http = 201)

\* C3: in every reachable state at most one row exists for a (user_id,
\* event_id) pair.
C3_AtMostOneRowPerUserEvent ==
    \A i, j \in RowIds :
        ( /\ Registrasi[i].user_id = Registrasi[j].user_id
          /\ Registrasi[i].event_id = Registrasi[j].event_id ) => i = j

\* C4: a register request whose user already has a row for the event (rows
\* persist, so a row present when the request is issued is still present at
\* its check) is rejected at the check, whatever ticket type it names, and
\* inserts no row, then or later.
C4_SecondRegistrationRejected ==
    /\ [][RowsPersist]_vars
    /\ [][\A r \in 1..MaxReq :
            ( /\ req[r].pc = "check"
              /\ Steps(r)
              /\ HasRow(req[r].userId, req[r].eventId) )
            => /\ req'[r].pc = "done"
               /\ req'[r].res.http \in {400, 500}
               /\ req'[r].pendaftaranBaru = 0
               /\ Registrasi' = Registrasi]_vars
    /\ [][\A r \in 1..MaxReq :
            (RegisterCheck(r) /\ HasRow(req[r].userId, req[r].eventId))
            => req'[r].res.message = "Anda sudah terdaftar di event ini"]_vars
    /\ [][\A r \in 1..MaxReq : req[r].pc = "done" => req'[r] = req[r]]_vars

\* C4 happens: a request was rejected as already registered although it named
\* another ticket type than the one of the user's row.
C4_Witness ==
    \E r \in 1..MaxReq, i \in RowIds :
        /\ req[r].pc = "done"
        /\ req[r].res.message = "Anda sudah terdaftar di event ini"
        /\ req[r].pendaftaranBaru = 0
        /\ Registrasi[i].user_id = req[r].userId
        /\ Registrasi[i].event_id = req[r].eventId
        /\ Registrasi[i].tiket_tipe_id # req[r].tiket_tipe_id

\* C5: a register request whose count query finds as many rows of the ticket
\* type as its kuota is answered sold out, and the table is left unchanged.
C5_FullTicketRejected ==
    /\ [][\A r \in 1..MaxReq :
            ( /\ req[r].pc = "count"
              /\ Steps(r)
              /\ Cardinality(RowsOfTiket(req[r].tiket_tipe_id))
                    = TiketTipe[req[r].tiket_tipe_id].kuota )
            => /\ req'[r].pc = "done"
               /\ req'[r].res.http \in {400, 500}
               /\ req'[r].pendaftaranBaru = 0
               /\ Registrasi' = Registrasi]_vars
    /\ [][\A r \in 1..MaxReq :
            ( /\ RegisterCount(r)
              /\ Cardinality(RowsOfTiket(req[r].tiket_tipe_id))
                    = TiketTipe[req[r].tiket_tipe_id].kuota )
            => req'[r].res.message
                    = "Maaf, tiket untuk tipe ini sudah habis"]_vars
    /\ [][\A r \in 1..MaxReq : req[r].pc = "done" => req'[r] = req[r]]_vars

\* C5 happens: a request was answered sold out while the ticket type holds
\* exactly kuota rows, and it inserted nothing.
C5_Witness ==
    \E r \in 1..MaxReq :
        /\ req[r].pc = "done"
        /\ req[r].res.message = "Maaf, tiket untuk tipe ini sudah habis"
        /\ req[r].pendaftaranBaru = 0
        /\ Cardinality(RowsOfTiket(req[r].tiket_tipe_id))
                = TiketTipe[req[r].tiket_tipe_id].kuota

\* C6: the capacity check counts only non-cancelled rows: when a ticket type
\* has kuota rows of which at least one is BATAL, the capacity check of a
\* request of a user without a row for the event lets the request through.
C6_CancelledRowsFreeCapacity ==
    [][\A r \in 1..MaxReq :
        ( /\ RegisterCount(r)
          /\ ~HasRow(req[r].userId, req[r].eventId)
          /\ Cardinality(RowsOfTiket(req[r].tiket_tipe_id))
                = TiketTipe[req[r].tiket_tipe_id].kuota
          /\ Cardinality(NonCancelled(req[r].tiket_tipe_id))
                < TiketTipe[req[r].tiket_tipe_id].kuota )
        => req'[r].pc = "insert"]_vars

C8_NotificationAlways200 ==
    lastResponse.endpoint = "notification" => lastResponse.http = 200

\* C9: a processed notification whose transaction status has no branch of its
\* own (or is capture with a fraud status other than accept) leaves every
\* row's status_pembayaran unchanged.
C9_UnmappedStatusChangesNothing ==
    [][\A o \in orders \cup {NoSuchRow}, ts \in TransactionStatus,
          fs \in FraudStatus :
        ( /\ \/ ts \notin {"capture", "settlement", "pending",
                           "cancel", "deny", "expire"}
             \/ (ts = "capture" /\ fs # "accept")
          /\ PaymentNotification(o, ts, fs, "none") )
        => Registrasi' = Registrasi]_vars

\* C10: a processed notification with transaction status pending leaves
\* every row's status_pembayaran unchanged, whatever it was.
C10_PendingIsNoOp ==
    [][\A o \in orders \cup {NoSuchRow}, fs \in FraudStatus :
        PaymentNotification(o, "pending", fs, "none")
        => Registrasi' = Registrasi]_vars

\* C11: a processed notification for an existing registration leaves it
\* LUNAS for settlement and for capture with fraud status accept, and BATAL
\* for cancel, deny and expire.
C11_MappingApplied ==
    [][\A o \in RowIds, ts \in TransactionStatus, fs \in FraudStatus :
        PaymentNotification(o, ts, fs, "none")
        => /\ (ts = "settlement" \/ (ts = "capture" /\ fs = "accept"))
                => Registrasi'[o].status_pembayaran = "LUNAS"
           /\ ts \in {"cancel", "deny", "expire"}
                => Registrasi'[o].status_pembayaran = "BATAL"
           /\ lastResponse'.http = 200]_vars

\* C11 happens: a notification was processed and a registration with a
\* gateway order is BATAL, which only the notification endpoint writes.
C11_Witness ==
    /\ lastResponse.endpoint = "notification"
    /\ lastResponse.http = 200
    /\ \E o \in orders : Registrasi[o].status_pembayaran = "BATAL"

\* C12: confirm-payment by the owning organization answers LUNAS and leaves
\* the row LUNAS; called on a row that is already LUNAS (a second call) it
\* answers LUNAS again and leaves the whole ledger as it was.
C12_ConfirmIdempotent ==
    [][\A p \in DOMAIN User, id \in RowIds :
        ( /\ ConfirmPayment(p, id)
          /\ User[p].role = "ORGANISASI"
          /\ Event[Registrasi[id].event_id].created_by_user_id = p )
        => /\ lastResponse'.http = 200
           /\ lastResponse'.status_pembayaran = "LUNAS"
           /\ Registrasi'[id].status_pembayaran = "LUNAS"
           /\ Registrasi[id].status_pembayaran = "LUNAS"
                => Registrasi' = Registrasi]_vars

\* C12 happens: the owner's confirm-payment has answered LUNAS and the row
\* it can be called on again is LUNAS.
C12_Witness ==
    /\ lastResponse.endpoint = "confirm-payment"
    /\ lastResponse.http = 200
    /\ lastResponse.status_pembayaran = "LUNAS"
    /\ \E id \in RowIds : Registrasi[id].status_pembayaran = "LUNAS"

\* C13: confirm-payment by an ORGANISASI user who does not own the event of
\* the registration is answered 403 and changes no row.
C13_NonOwnerForbidden ==
    [][\A p \in DOMAIN User, id \in RowIds :
        ( /\ ConfirmPayment(p, id)
          /\ User[p].role = "ORGANISASI"
          /\ Event[Registrasi[id].event_id].created_by_user_id # p )
        => /\ lastResponse'.http = 403
           /\ Registrasi' = Registrasi]_vars

\* C13 happens: an organization was refused as not owning the event of an
\* existing registration.
C13_Witness ==
    /\ lastResponse = ResNotOwner
    /\ RowIds # {}

\* C14: a 201 for a free ticket type carries isFree = true and no payment
\* token and made no gateway call; a 201 for a paid ticket type made exactly
\* one gateway call and carries a token and isFree = false.
C14_FreeAndPaidAnswers ==
    \A r \in 1..MaxReq :
        (req[r].pc = "done" /\ req[r].res.http = 201)
        => IF TiketTipe[req[r].tiket_tipe_id].harga = 0
           THEN req[r].isFree /\ ~req[r].paymentToken
                /\ req[r].gatewayCalls = 0
                /\ req[r].pendaftaranBaru \notin orders
           ELSE ~req[r].isFree /\ req[r].paymentToken
                /\ req[r].gatewayCalls = 1
                /\ req[r].pendaftaranBaru \in orders

\* C14 happens: a free and a paid registration have both been answered 201.
C14_Witness ==
    \E r1, r2 \in 1..MaxReq :
        /\ req[r1].pc = "done" /\ req[r1].res.http = 201
        /\ TiketTipe[req[r1].tiket_tipe_id].harga = 0
        /\ req[r2].pc = "done" /\ req[r2].res.http = 201
        /\ TiketTipe[req[r2].tiket_tipe_id].harga > 0

\* Some existing row differs after the step.
RowChanged == \E i \in RowIds : Registrasi'[i] # Registrasi[i]

\* C15: rows are never deleted and change only in status_pembayaran; a step
\* that changes an existing row is a confirm-payment or a notification, so
\* no step of register changes one.
C15_OnlyStatusOnlyTwoWriters ==
    /\ [][RowsPersist]_vars
    /\ [][RowChanged =>
            \/ \E p \in DOMAIN User, id \in RowIds : ConfirmPayment(p, id)
            \/ \E o \in orders, ts \in TransactionStatus, fs \in FraudStatus :
                    PaymentNotification(o, ts, fs, "none")]_vars
    /\ [][(\E r \in 1..MaxReq : Steps(r)) => ~RowChanged]_vars

\* C15 happens: a row inserted by register was changed by a later step, and
\* register answered 500 for another row that is still as inserted.
C15_Witness ==
    /\ \E i \in RowIds : Registrasi[i].status_pembayaran # "PENDING"
    /\ \E r \in 1..MaxReq :
        /\ req[r].pc = "done" /\ req[r].res.http = 500
        /\ req[r].pendaftaranBaru \in RowIds
        /\ Registrasi[req[r].pendaftaranBaru].status_pembayaran = "PENDING"


----------------------------------------------------------------------------
\* Access control.

FreshTokens == {tk \in SignedTokens : tk.exp = "fresh"}

RoleOf(tk) == User[tk.userId].role

\* Routes that name roles in requireRole.
AllowedRoles ==
    [createEvent |-> {"ORGANISASI"}, addTicket |-> {"ORGANISASI"},
     myEvents |-> {"ORGANISASI"}, attendees |-> {"ORGANISASI"},
     confirmPayment |-> {"ORGANISASI"}, myRegistrations |-> {"PESERTA"}]

\* A request arrived in this step.
Arrives == apiReq'.route # "none"

\* The middleware answered the request itself: its handler produced nothing
\* and no table changed.
HandlerDidNotRun ==
    /\ apiRes'.route = apiReq'.route
    /\ apiRes'.message \in {ResTokenMissing.message, ResTokenInvalid.message,
                            ResTokenExpired.message, ResIzinDitolak.message}
    /\ UNCHANGED <<Event, TiketTipe>>
    /\ UNCHANGED <<ledgerVars, trip, client, authVars, historyVars>>

\* C17 as stated: on every protected route a request whose token is missing,
\* forged or expired is answered 401, the handler does not run and no state
\* changes.
C17_BadTokenIs401 ==
    [][(Arrives /\ apiReq'.token \notin FreshTokens) =>
          (apiRes'.http = 401 /\ HandlerDidNotRun)]_vars

\* C17: on every protected route a request whose token is missing or expired
\* is answered 401 (with expired = true exactly when it is expired), one whose
\* token has a bad signature is answered 403, and in all three cases the
\* handler does not run and no state changes.
C17_BadTokenRefused ==
    [][(Arrives /\ apiReq'.token \notin FreshTokens) =>
          /\ apiRes'.http = (IF apiReq'.token.kind = "forged" THEN 403 ELSE 401)
          /\ apiRes'.expired = (apiReq'.token.exp = "expired")
          /\ HandlerDidNotRun]_vars

\* A forged token was refused with 403 on the tickets route of an existing
\* event.
C17_Witness ==
    /\ apiReq.token.kind = "forged"
    /\ apiReq.route = "addTicket"
    /\ apiReq.eventId \in DOMAIN Event
    /\ apiRes.http = 403

\* C19: a PESERTA calling POST /api/events gets 403 and no event is created,
\* an ORGANISASI calling GET /api/peserta/my-registrations gets 403, and on
\* every route with requireRole a principal whose role is not allowed is
\* refused with 403 before the handler runs.
C19_RoleGating ==
    [][(Arrives /\ apiReq'.token \in FreshTokens) =>
        /\ (apiReq'.route = "createEvent" /\ RoleOf(apiReq'.token) = "PESERTA")
              => (apiRes'.http = 403 /\ Event' = Event)
        /\ (/\ apiReq'.route = "myRegistrations"
            /\ RoleOf(apiReq'.token) = "ORGANISASI")
              => apiRes'.http = 403
        /\ (/\ apiReq'.route \in DOMAIN AllowedRoles
            /\ RoleOf(apiReq'.token) \notin AllowedRoles[apiReq'.route])
              => (apiRes'.http = 403 /\ HandlerDidNotRun)]_vars

\* A PESERTA with a valid token and a valid body was refused on
\* POST /api/events.
C19_Witness ==
    /\ apiReq.route = "createEvent"
    /\ apiReq.token \in FreshTokens
    /\ RoleOf(apiReq.token) = "PESERTA"
    /\ apiReq.bodyValid
    /\ apiRes.http = 403

\* The step is a request of an ORGANISASI with a valid token to the tickets
\* route.
OrganisasiAddsTicket ==
    /\ apiReq'.route = "addTicket"
    /\ apiReq'.token \in FreshTokens
    /\ RoleOf(apiReq'.token) = "ORGANISASI"

OwnsEvent(userId, eventId) ==
    eventId \in DOMAIN Event /\ Event[eventId].created_by_user_id = userId

\* C20 as stated: an ORGANISASI adding a ticket type to an event of another
\* organisation gets 403, to a non-existent event 404, no row is created in
\* either case, and only the owner of the event creates a ticket type.
C20_NotOwner403NotFound404 ==
    [][/\ OrganisasiAddsTicket =>
            /\ apiReq'.eventId \notin DOMAIN Event =>
                  (apiRes'.http = 404 /\ TiketTipe' = TiketTipe)
            /\ (/\ apiReq'.eventId \in DOMAIN Event
                /\ ~OwnsEvent(apiReq'.token.userId, apiReq'.eventId)) =>
                  (apiRes'.http = 403 /\ TiketTipe' = TiketTipe)
       /\ TiketTipe' # TiketTipe =>
            (OrganisasiAddsTicket
             /\ OwnsEvent(apiReq'.token.userId, apiReq'.eventId))]_vars

\* C20: an ORGANISASI adding a ticket type with a body that passes validation
\* to an event of another organisation gets 403, to a non-existent event 404;
\* whatever the body, no row is created in either case, and only the owner of
\* the event creates a ticket type.
C20_ValidBodyNotOwner403NotFound404 ==
    [][/\ OrganisasiAddsTicket =>
            /\ apiReq'.eventId \notin DOMAIN Event =>
                  /\ apiReq'.bodyValid => apiRes'.http = 404
                  /\ TiketTipe' = TiketTipe
            /\ (/\ apiReq'.eventId \in DOMAIN Event
                /\ ~OwnsEvent(apiReq'.token.userId, apiReq'.eventId)) =>
                  /\ apiReq'.bodyValid => apiRes'.http = 403
                  /\ TiketTipe' = TiketTipe
       /\ TiketTipe' # TiketTipe =>
            (OrganisasiAddsTicket
             /\ OwnsEvent(apiReq'.token.userId, apiReq'.eventId))]_vars

\* An organisation that does not own the event was refused with 403 on the
\* tickets route.
C20_Witness ==
    /\ apiReq.route = "addTicket"
    /\ apiReq.token \in FreshTokens
    /\ RoleOf(apiReq.token) = "ORGANISASI"
    /\ apiReq.eventId \in DOMAIN Event
    /\ ~OwnsEvent(apiReq.token.userId, apiReq.eventId)
    /\ apiReq.bodyValid
    /\ apiRes.http = 403

----------------------------------------------------------------------------
\* The order id: built by register, taken apart by the notification handler.
\* Strings are sequences of characters.

\* Registration ids and timestamps the order ids are built from.
MaxId == 12

MaxNow == 3

\* Date.now() of the first order (seconds instead of milliseconds).
NowBase == 1700000000

Digit == <<"0", "1", "2", "3", "4", "5", "6", "7", "8", "9">>

\* `${n}` of a non-negative integer.
RECURSIVE Digits(_)
Digits(n) ==
    IF n < 10 THEN <<Digit[n + 1]>>
    ELSE Digits(n \div 10) \o <<Digit[(n % 10) + 1]>>

\* The order id with the timestamp before the registration id.
OrderIdTimestampFirst(id, now) ==
    <<"O", "R", "D", "E", "R", "-">> \o Digits(now) \o <<"-">> \o Digits(id)

\* `ORDER-${pendaftaranBaru.id}-${Date.now()}`
OrderId(id, now) ==
    <<"O", "R", "D", "E", "R", "-">> \o Digits(id) \o <<"-">> \o Digits(now)

\* String.prototype.split(separator)
RECURSIVE Split(_, _)
Split(s, separator) ==
    IF \A i \in 1..Len(s) : s[i] # separator THEN <<s>>
    ELSE LET i == CHOOSE j \in 1..Len(s) :
                    s[j] = separator /\ \A k \in 1..(j - 1) : s[k] # separator
         IN  <<SubSeq(s, 1, i - 1)>> \o Split(SubSeq(s, i + 1, Len(s)), separator)

\* The integer Postgres reads from a text parameter compared with "id".
RECURSIVE ToInteger(_)
ToInteger(text) ==
    LET value(c) == (CHOOSE d \in 1..10 : Digit[d] = c) - 1
    IN  IF Len(text) = 1 THEN value(text[1])
        ELSE 10 * ToInteger(SubSeq(text, 1, Len(text) - 1)) + value(text[Len(text)])

\* register: the order id of registration trip.id at time trip.now.
CreateTransaction ==
    /\ trip.pc = "registered"
    /\ trip' = [trip EXCEPT !.pc = "ordered", !.order_id = OrderId(trip.id, trip.now)]
    /\ UNCHANGED <<catalogVars, ledgerVars, client, authVars, historyVars>>

\* The notification handler: orderId.split('-')[1], then
\* UPDATE "Registrasi" ... WHERE id = $2 over the rows 1..MaxId.
NotificationForOrder ==
    /\ trip.pc = "ordered"
    /\ LET registrasiId == Split(trip.order_id, "-")[2]
       IN  trip' = [trip EXCEPT
                !.pc = "notified",
                !.registrasiId = registrasiId,
                !.updated = {id \in 1..MaxId : id = ToInteger(registrasiId)}]
    /\ UNCHANGED <<catalogVars, ledgerVars, client, authVars, historyVars>>

OrderInit ==
    /\ Event = SeededEvent
    /\ TiketTipe = SeededTiketTipe
    /\ apiReq = NoApiRequest
    /\ apiRes = NoApiResponse
    /\ LedgerInit
    /\ client = FreshClient
    /\ AccountsInit
    /\ HistoryInit
    /\ trip \in {[pc |-> "registered", id |-> id, now |-> NowBase + n,
                  order_id |-> <<>>, registrasiId |-> <<>>, updated |-> {}] :
                    id \in 1..MaxId, n \in 0..MaxNow}

OrderNext == CreateTransaction \/ NotificationForOrder

OrderSpec == OrderInit /\ [][OrderNext]_vars

\* C16: the registration id the notification handler extracts from the order
\* id register built for registration r at time t is r, so the UPDATE of the
\* notification hits exactly row r.
C16_OrderIdRoundTrip ==
    trip.pc = "notified" =>
        /\ trip.registrasiId = Digits(trip.id)
        /\ trip.updated = {trip.id}

\* A notification for the order of a registration with a two-digit id was
\* handled.
C16_Witness ==
    /\ trip.pc = "notified"
    /\ trip.id >= 10
    /\ trip.updated = {trip.id}

----------------------------------------------------------------------------
\* The auth routes: POST /api/auth/register, /login and /refresh.

\* authLimiter: max requests per window and IP.
AuthMax == 5

\* Rows the "User" table gets.
MaxUsers == 2

UpperCase == {"A", "B", "R"}

LowerCase == {"a", "b", "d", "e", "h", "i", "k", "r", "s"}

DigitChars == {Digit[i] : i \in DOMAIN Digit}

\* String.prototype.toLowerCase
ToLowerCase(s) ==
    [i \in DOMAIN s |->
        CASE s[i] = "A" -> "a"
          [] s[i] = "B" -> "b"
          [] s[i] = "R" -> "r"
          [] OTHER -> s[i]]

\* input.replace(/[<>\"']/g, '')
SanitizeInput(s) == SelectSeq(s, LAMBDA c : c \notin {"<", ">", "\"", "'"})

\* body('email').isEmail(): one @ between a local part and a domain; the
\* local part may hold an apostrophe.
IsEmail(s) ==
    /\ Cardinality({i \in DOMAIN s : s[i] = "@"}) = 1
    /\ s[1] # "@"
    /\ s[Len(s)] # "@"
    /\ \A i \in DOMAIN s : s[i] \in UpperCase \cup LowerCase \cup {"@", "'"}
    /\ \A i, j \in DOMAIN s : (s[j] = "@" /\ i > j) => s[i] # "'"

\* The email as the handlers look it up: normalizeEmail() lower-cases it,
\* then sanitizeInput(email.toLowerCase()).
NormalizeEmail(s) == SanitizeInput(ToLowerCase(s))

\* isLength({ min: 8 }) and /^(?=.*[a-z])(?=.*[A-Z])(?=.*\d)/
PasswordValid(p) ==
    /\ Len(p) >= 8
    /\ \E i \in DOMAIN p : p[i] \in LowerCase
    /\ \E i \in DOMAIN p : p[i] \in UpperCase
    /\ \E i \in DOMAIN p : p[i] \in DigitChars

VALID_ROLES == {"PESERTA", "ORGANISASI"}

isValidRole(role) == role \in VALID_ROLES

\* The validators of register; role "none" is a body without a role.
RegisterBodyValid(email, password, namaLen, role) ==
    /\ IsEmail(email)
    /\ PasswordValid(password)
    /\ namaLen >= 3 /\ namaLen <= 100
    /\ (role # "none" => role \in VALID_ROLES)

\* The validators of login.
LoginBodyValid(email, password) == IsEmail(email) /\ password # <<>>

\* bcrypt.hash and bcrypt.compare: the hash matches the password it was made
\* from and no other.
BcryptHash(password) == [hashOf |-> password]

BcryptCompare(password, hash) == hash.hashOf = password

\* A register that stores PESERTA whatever the body says.
UserRoleAlwaysPeserta(role) == "PESERTA"

\* const userRole = role && isValidRole(role) ? role : 'PESERTA'
UserRole(role) == IF role # "none" /\ isValidRole(role) THEN role ELSE "PESERTA"

\* SELECT * FROM "User" WHERE email = $1
UsersByEmail(table, email) ==
    {u \in DOMAIN table : table[u].present /\ table[u].email = email}

\* The unique constraint on "User".email: the INSERT fails with code 23505.
UniqueViolation(table, email) == UsersByEmail(table, email) # {}

AuthAnswer(http, message) ==
    [http |-> http, message |-> message, token |-> NoAccessToken,
     refreshToken |-> NoRefreshToken, user |-> NoUser]

ResLimited == AuthAnswer(429, "Terlalu banyak percobaan login, coba lagi dalam 15 menit")

ResValidasiGagal == AuthAnswer(400, "Validasi gagal")

\* A catch block without the test for code 23505.
ResConflictUnhandled == AuthAnswer(500, "Terjadi kesalahan pada server")

ResEmailTerdaftar == AuthAnswer(400, "Email ini sudah terdaftar.")

ResSalah == AuthAnswer(401, "Email atau password salah")

ResRefreshMissing == AuthAnswer(401, "Refresh token tidak ada")

ResRefreshInvalid == AuthAnswer(403, "Refresh token tidak valid")

ResUserGone == AuthAnswer(404, "User tidak ditemukan")

PublicUser(table, u) == [id |-> u, email |-> table[u].email, role |-> table[u].role]

\* jwt.sign({ userId, email, role }, JWT_SECRET, { expiresIn: '1h' })
AccessToken(table, u) == [kind |-> "jwt", userId |-> u, role |-> table[u].role]

\* jwt.sign({ userId, type: 'refresh' }, JWT_REFRESH_SECRET, { expiresIn: '7d' })
RefreshToken(u) == [kind |-> "jwt", userId |-> u, exp |-> "fresh"]

\* 201: the user and no token.
ResRegistered(table, u) ==
    [http |-> 201, message |-> "Registrasi berhasil!", token |-> NoAccessToken,
     refreshToken |-> NoRefreshToken, user |-> PublicUser(table, u)]

ResLogin(table, u) ==
    [http |-> 200, message |-> "Login berhasil!", token |-> AccessToken(table, u),
     refreshToken |-> RefreshToken(u), user |-> PublicUser(table, u)]

ResRefreshed(table, u) ==
    [http |-> 200, message |-> "none", token |-> AccessToken(table, u),
     refreshToken |-> NoRefreshToken, user |-> PublicUser(table, u)]

\* authLimiter answers 429 once the window has counted max requests.
Limited == hits >= AuthMax

\* authLimiter counts the request; counts beyond max make no difference.
Counted == IF hits < AuthMax THEN hits + 1 ELSE hits

\* A login that tells an unknown email from a wrong password.
LoginAnswerNoSuchUser(table, limited, email, password) ==
    IF limited THEN ResLimited
    ELSE IF ~LoginBodyValid(email, password) THEN ResValidasiGagal
    ELSE LET rows == UsersByEmail(table, NormalizeEmail(email))
         IN  IF rows = {} THEN ResUserGone
             ELSE LET user == CHOOSE u \in rows : TRUE
                  IN  IF ~BcryptCompare(password, table[user].password)
                      THEN ResSalah
                      ELSE ResLogin(table, user)

\* The answer of POST /api/auth/login.
LoginAnswer(table, limited, email, password) ==
    IF limited THEN ResLimited
    ELSE IF ~LoginBodyValid(email, password) THEN ResValidasiGagal
    ELSE LET rows == UsersByEmail(table, NormalizeEmail(email))
         IN  IF rows = {} THEN ResSalah
             ELSE LET user == CHOOSE u \in rows : TRUE
                  IN  IF ~BcryptCompare(password, table[user].password)
                      THEN ResSalah
                      ELSE ResLogin(table, user)

\* A refresh that never looks the user up.
RefreshAnswerNoLookup(table, token) ==
    IF token.kind = "none" THEN ResRefreshMissing
    ELSE IF token.kind = "forged" \/ token.exp = "expired" THEN ResRefreshInvalid
    ELSE IF token.userId \notin DOMAIN table THEN ResUserGone
    ELSE ResRefreshed(table, token.userId)

\* The answer of POST /api/auth/refresh.
RefreshAnswer(table, token) ==
    IF token.kind = "none" THEN ResRefreshMissing
    ELSE IF token.kind = "forged" \/ token.exp = "expired" THEN ResRefreshInvalid
    ELSE IF ~(token.userId \in DOMAIN table /\ table[token.userId].present)
         THEN ResUserGone
    ELSE ResRefreshed(table, token.userId)

\* POST /api/auth/register
AuthRegister(email, password, namaLen, role) ==
    /\ authReq' = [route |-> "register", email |-> email, password |-> password,
                   namaLen |-> namaLen, role |-> role,
                   refreshToken |-> NoRefreshToken]
    /\ hits' = Counted
    /\ IF Limited
       THEN authRes' = ResLimited /\ accounts' = accounts
       ELSE IF ~RegisterBodyValid(email, password, namaLen, role)
       THEN authRes' = ResValidasiGagal /\ accounts' = accounts
       ELSE IF UniqueViolation(accounts, NormalizeEmail(email))
       THEN authRes' = ResEmailTerdaftar /\ accounts' = accounts
       ELSE /\ Len(accounts) < MaxUsers
            /\ accounts' = Append(accounts,
                              [email |-> NormalizeEmail(email),
                               password |-> BcryptHash(password),
                               role |-> UserRole(role),
                               present |-> TRUE])
            /\ authRes' = ResRegistered(accounts', Len(accounts'))
    /\ UNCHANGED <<catalogVars, ledgerVars, trip, client, historyVars>>

\* POST /api/auth/login
AuthLogin(email, password) ==
    /\ authReq' = [route |-> "login", email |-> email, password |-> password,
                   namaLen |-> 0, role |-> "none",
                   refreshToken |-> NoRefreshToken]
    /\ hits' = Counted
    /\ authRes' = LoginAnswer(accounts, Limited, email, password)
    /\ accounts' = accounts
    /\ UNCHANGED <<catalogVars, ledgerVars, trip, client, historyVars>>

\* POST /api/auth/refresh: the route has no authLimiter.
AuthRefresh(token) ==
    /\ authReq' = [route |-> "refresh", email |-> <<>>, password |-> <<>>,
                   namaLen |-> 0, role |-> "none", refreshToken |-> token]
    /\ authRes' = RefreshAnswer(accounts, token)
    /\ UNCHANGED <<accounts, hits>>
    /\ UNCHANGED <<catalogVars, ledgerVars, trip, client, historyVars>>

\* The row of a user leaves the table (no route does it; the refresh handler
\* provides for it with its rows.length === 0 branch).
DeleteUser(u) ==
    /\ u \in DOMAIN accounts
    /\ accounts[u].present
    /\ accounts' = [accounts EXCEPT ![u].present = FALSE]
    /\ UNCHANGED <<hits, authReq, authRes>>
    /\ UNCHANGED <<catalogVars, ledgerVars, trip, client, historyVars>>

\* windowMs have passed: authLimiter starts a new window.
WindowReset ==
    /\ hits > 0
    /\ hits' = 0
    /\ UNCHANGED <<accounts, authReq, authRes>>
    /\ UNCHANGED <<catalogVars, ledgerVars, trip, client, historyVars>>

Rahasia == <<"R", "a", "h", "a", "s", "i", "a", "1">>

Berbeda == <<"B", "e", "r", "b", "e", "d", "a", "4">>

Lemah == <<"r", "a", "h", "a", "s", "i", "a", "1">>

\* Emails the requests carry: two spellings that normalise to a@k, one more
\* address, and a string that is no email.
ValidEmails ==
    {<<"a", "@", "k">>, <<"A", "@", "k">>, <<"a", "'", "@", "k">>, <<"b", "@", "k">>}

BukanEmail == <<"a", "k">>

\* Bodies of register: every valid email with every way to give the role,
\* and one body failing each validator.
RegisterBodies ==
    {<<e, Rahasia, 3, r>> : e \in ValidEmails, r \in {"none"} \cup VALID_ROLES}
        \cup {<<BukanEmail, Rahasia, 3, "none">>,
              <<<<"a", "@", "k">>, Lemah, 3, "none">>,
              <<<<"a", "@", "k">>, Rahasia, 2, "none">>,
              <<<<"a", "@", "k">>, Rahasia, 3, "ADMIN">>}

LoginBodies ==
    {<<e, p>> : e \in ValidEmails, p \in {Rahasia, Berbeda}}
        \cup {<<BukanEmail, Rahasia>>, <<<<"a", "@", "k">>, <<>>>>}

\* Refresh tokens a client can send: none, one signed with another secret,
\* and the tokens login has signed for the rows of the table (every row's
\* owner can have logged in), fresh or past their seven days.
RefreshTokens ==
    {NoRefreshToken}
        \cup {[kind |-> "forged", userId |-> u, exp |-> "fresh"] : u \in 1..MaxUsers}
        \cup {[kind |-> "jwt", userId |-> u, exp |-> x] :
                u \in DOMAIN accounts, x \in {"fresh", "expired"}}

AuthInit ==
    /\ Event = <<>>
    /\ TiketTipe = <<>>
    /\ apiReq = NoApiRequest
    /\ apiRes = NoApiResponse
    /\ LedgerInit
    /\ trip = NoTrip
    /\ client = FreshClient
    /\ accounts = <<>>
    /\ hits = 0
    /\ authReq = NoAuthRequest
    /\ authRes = NoAuthResponse
    /\ HistoryInit

AuthNext ==
    \/ \E b \in RegisterBodies : AuthRegister(b[1], b[2], b[3], b[4])
    \/ \E b \in LoginBodies : AuthLogin(b[1], b[2])
    \/ \E t \in RefreshTokens : AuthRefresh(t)
    \/ \E u \in DOMAIN accounts : DeleteUser(u)
    \/ WindowReset

AuthSpec == AuthInit /\ [][AuthNext]_vars

----------------------------------------------------------------------------
\* The browser client (services/api.ts and the components that call fetch).

\* The protected requests the components send, with the roles the route
\* names ({} for a route without requireRole).
Flows ==
    [createEvent |-> {"ORGANISASI"}, addTicket |-> {"ORGANISASI"},
     register |-> {}, myRegistrations |-> {"PESERTA"},
     myEvents |-> {"ORGANISASI"}, attendees |-> {"ORGANISASI"},
     confirmPayment |-> {"ORGANISASI"}]

\* Answers of a handler that ran: success, or a refusal of its own.
HandlerHttp == {200, 400}

\* response.ok
Ok(response) == response.http \in 200..299

\* handleResponse(response, retryWithRefresh) of services/api.ts, with
\* refreshAccessToken and logout: the error thrown ("none" when it returns the
\* body), the calls of POST /auth/refresh made, and what became of the stored
\* tokens.
HandleResponse(response, retryWithRefresh, hasRefreshToken, refreshOk) ==
    IF response.http = 401 /\ retryWithRefresh /\ response.expired
    THEN IF ~hasRefreshToken
         THEN [error |-> "Sesi Anda telah berakhir. Silakan login kembali.",
               refreshCalls |-> 0, storage |-> "removed"]
         ELSE IF refreshOk
         THEN [error |-> "TOKEN_REFRESHED", refreshCalls |-> 1,
               storage |-> "refreshed"]
         ELSE [error |-> "Sesi Anda telah berakhir. Silakan login kembali.",
               refreshCalls |-> 1, storage |-> "removed"]
    ELSE IF ~Ok(response)
    THEN [error |-> "failed", refreshCalls |-> 0, storage |-> "kept"]
    ELSE [error |-> "none", refreshCalls |-> 0, storage |-> "kept"]

\* AuthModal.handleSubmit in login mode: authAPI.login, which passes
\* retryWithRefresh = false, then tokenStorage.set.
ClientLogin(u, passwordOk) ==
    /\ client.pc \in {"idle", "done"}
    /\ LET response == [http |-> IF passwordOk THEN 200 ELSE 401,
                        expired |-> FALSE]
           h == HandleResponse(response, FALSE, client.refreshToken, FALSE)
       IN  client' = [client EXCEPT
                !.pc = "done",
                !.flow = "login",
                !.res = response,
                !.error = h.error,
                !.refreshCalls = @ + h.refreshCalls,
                !.token = IF h.error = "none"
                          THEN [kind |-> "jwt", userId |-> u, exp |-> "fresh"]
                          ELSE @,
                !.refreshToken = IF h.error = "none" THEN TRUE ELSE @,
                !.user = IF h.error = "none" THEN u ELSE @]
    /\ UNCHANGED <<catalogVars, ledgerVars, trip, authVars, historyVars>>

\* tokenStorage.set(response.token): localStorage keeps the token of the
\* body, or the string "undefined" when the body has none.
TokenSet(token) ==
    IF token.kind = "none"
    THEN [kind |-> "undefined", userId |-> 0, exp |-> "none"]
    ELSE [kind |-> token.kind, userId |-> token.userId, exp |-> "fresh"]

\* AuthModal.handleSubmit in register mode: authAPI.register, which passes
\* retryWithRefresh = false, then tokenStorage.set(response.token),
\* userStorage.set(response.user) and onAuthSuccess. The server has given
\* the new user the id u, or has refused the body.
ClientRegister(u, created) ==
    /\ client.pc \in {"idle", "done"}
    /\ LET body == IF created THEN ResRegistered(accounts, u) ELSE ResEmailTerdaftar
           response == [http |-> body.http, expired |-> FALSE]
           h == HandleResponse(response, FALSE, client.refreshToken, FALSE)
       IN  client' = [client EXCEPT
                !.pc = "done",
                !.flow = "register-user",
                !.res = response,
                !.error = h.error,
                !.refreshCalls = @ + h.refreshCalls,
                !.token = IF h.error = "none" THEN TokenSet(body.token) ELSE @,
                !.user = IF h.error = "none" THEN body.user.id ELSE @]
    /\ UNCHANGED <<catalogVars, ledgerVars, trip, authVars, historyVars>>

\* authAPI.logout
ClientLogout ==
    /\ client.pc \in {"idle", "done"}
    /\ client.token.kind # "none"
    /\ client' = [FreshClient EXCEPT !.refreshCalls = client.refreshCalls]
    /\ UNCHANGED <<catalogVars, ledgerVars, trip, authVars, historyVars>>

\* The hour of the access token passes.
TokenExpires ==
    /\ client.token.kind = "jwt"
    /\ client.token.exp = "fresh"
    /\ client' = [client EXCEPT !.token.exp = "expired"]
    /\ UNCHANGED <<catalogVars, ledgerVars, trip, authVars, historyVars>>

\* A component sends its protected request with the stored token.
\* CreateEventModal refuses to send without a token; the others send
\* "Bearer null".
ClientFetch(flow) ==
    /\ client.pc \in {"idle", "done"}
    /\ IF flow = "createEvent" /\ client.token.kind = "none"
       THEN client' = [client EXCEPT
                !.pc = "done", !.flow = flow,
                !.res = [http |-> 0, expired |-> FALSE],
                !.error = "Token tidak ditemukan. Silakan login kembali."]
       ELSE client' = [client EXCEPT
                !.pc = "awaiting", !.flow = flow,
                !.res = [http |-> 0, expired |-> FALSE],
                !.error = "none"]
    /\ UNCHANGED <<catalogVars, ledgerVars, trip, authVars, historyVars>>

\* The server answers the request in flight: a middleware refuses it, or
\* the handler answers.
ServerAnswers(handlerHttp) ==
    /\ client.pc = "awaiting"
    /\ LET sent == IF client.token.kind \in {"none", "undefined"} THEN ForgedToken
                   ELSE client.token
           m == Middleware(sent, Flows[client.flow])
       IN  client' = [client EXCEPT
                !.pc = "answered",
                !.res = IF m # PassOn
                        THEN [http |-> m.http, expired |-> m.expired]
                        ELSE [http |-> handlerHttp, expired |-> FALSE]]
    /\ UNCHANGED <<catalogVars, ledgerVars, trip, authVars, historyVars>>

\* The component reads the response: if (!response.ok) throw ..., and the
\* catch shows the error (setError or alert).
ClientReceive ==
    /\ client.pc = "answered"
    /\ client' = [client EXCEPT
            !.pc = "done",
            !.error = IF Ok(client.res) THEN "none" ELSE "failed"]
    /\ UNCHANGED <<catalogVars, ledgerVars, trip, authVars, historyVars>>

ClientInit ==
    /\ Event = SeededEvent
    /\ TiketTipe = SeededTiketTipe
    /\ apiReq = NoApiRequest
    /\ apiRes = NoApiResponse
    /\ LedgerInit
    /\ trip = NoTrip
    /\ client = FreshClient
    /\ AccountsInit
    /\ HistoryInit

ClientNext ==
    \/ \E u \in DOMAIN User, ok \in BOOLEAN : ClientLogin(u, ok)
    \/ \E u \in DOMAIN User, created \in BOOLEAN : ClientRegister(u, created)
    \/ ClientLogout
    \/ TokenExpires
    \/ \E f \in DOMAIN Flows : ClientFetch(f)
    \/ \E h \in HandlerHttp : ServerAnswers(h)
    \/ ClientReceive

ClientSpec == ClientInit /\ [][ClientNext]_vars

\* C18: whenever a protected request of the client was answered 401 with
\* expired = true and the client reports a failure to the user, it has called
\* POST /auth/refresh before.
C18_RefreshBeforeFailure ==
    (/\ client.pc = "done"
     /\ client.flow \in DOMAIN Flows
     /\ client.res = [http |-> 401, expired |-> TRUE]
     /\ client.error # "none")
        => client.refreshCalls > 0

----------------------------------------------------------------------------
\* Register: what it leaves behind.

\* C26: a register request answered with anything but 201 has inserted no
\* row.
C26_NoRowUnless201 ==
    \A r \in 1..MaxReq :
        (req[r].pc = "done" /\ req[r].res.http # 201)
            => req[r].pendaftaranBaru = 0

\* Request r returns in this step.
Returns(r) == req[r].pc # "done" /\ req'[r].pc = "done"

C28_TicketBelongsToEvent ==
    /\ [](\A i \in RowIds :
            /\ Registrasi[i].tiket_tipe_id \in DOMAIN TiketTipe
            /\ TiketTipe[Registrasi[i].tiket_tipe_id].event_id
                    = Registrasi[i].event_id)
    /\ [][\A r \in 1..MaxReq :
            (/\ req[r].pc = "idle"
             /\ Steps(r)
             /\ (\/ req'[r].tiket_tipe_id \notin DOMAIN TiketTipe
                 \/ TiketTipe[req'[r].tiket_tipe_id].event_id
                        # req'[r].eventId))
                => (/\ req'[r].pc = "done"
                    /\ req'[r].res.http = 404
                    /\ Registrasi' = Registrasi)]_vars
    /\ [][\A r \in 1..MaxReq :
            (req[r].pc = "done" /\ req[r].res.http = 404)
                => req'[r] = req[r]]_vars

\* A request for event 2 naming a ticket type of event 1 was answered 404
\* while rows exist.
C28_Witness ==
    \E r \in 1..MaxReq :
        /\ req[r].pc = "done"
        /\ req[r].res = ResTiketInvalid
        /\ req[r].tiket_tipe_id \in DOMAIN TiketTipe
        /\ TiketTipe[req[r].tiket_tipe_id].event_id # req[r].eventId
        /\ req[r].pendaftaranBaru = 0
        /\ Registrasi # <<>>

----------------------------------------------------------------------------
\* The ledger with the history of paid rows.

\* The rows that are LUNAS after the step join the history.
Tracked == everLunas' = everLunas \cup
    {i \in DOMAIN Registrasi' : Registrasi'[i].status_pembayaran = "LUNAS"}

TrackedNotification(registrasiId, transactionStatus, fraudStatus, failure) ==
    /\ NotificationHandler(registrasiId, transactionStatus, fraudStatus, failure)
    /\ Tracked

TrackedConfirmPayment(principal, registrasiId) ==
    ConfirmPaymentHandler(principal, registrasiId) /\ Tracked

ReconNext ==
    \/ \E r \in 1..MaxReq, u \in Registrants, e \in DOMAIN Event,
          t \in DOMAIN TiketTipe : RegisterTiketQuery(r, u, e, t)
    \/ \E r \in 1..MaxReq : RegisterCheck(r)
    \/ \E r \in 1..MaxReq : RegisterCount(r)
    \/ \E r \in 1..MaxReq : RegisterInsert(r)
    \/ \E r \in 1..MaxReq, ok \in BOOLEAN : RegisterSnap(r, ok)
    \/ \E r \in 1..MaxReq : RegisterThrow(r)
    \/ \E o \in orders \cup {NoSuchRow}, ts \in TransactionStatus,
          fs \in FraudStatus : TrackedNotification(o, ts, fs, "none")
    \/ \E f \in NotificationFailure \ {"none"} :
            TrackedNotification(NoSuchRow, "pending", "accept", f)
    \/ \E p \in DOMAIN User, id \in RowIds \cup {NoSuchRow} :
            TrackedConfirmPayment(p, id)

ReconSpec == Init /\ [][ReconNext]_vars

\* C25: a processed cancel, deny or expire notification for a row that is
\* LUNAS leaves it BATAL (the handler does not look at the current status), so
\* a row that has been LUNAS can be BATAL.
C25_PaidCanBeCancelled ==
    [][\A o \in RowIds, ts \in {"cancel", "deny", "expire"}, fs \in FraudStatus :
        (/\ NotificationHandler(o, ts, fs, "none")
         /\ Registrasi[o].status_pembayaran = "LUNAS")
            => (/\ Registrasi'[o].status_pembayaran = "BATAL"
                /\ lastResponse'.http = 200)]_vars

\* A row that has been LUNAS is BATAL.
C25_Witness ==
    \E i \in everLunas : Registrasi[i].status_pembayaran = "BATAL"

----------------------------------------------------------------------------
\* Register with the clock: the qr_code_unik of every row.

\* Milliseconds the clock advances while the requests run.
MaxClock == 1

\* `EVT-${eventId}-USR-${userId}-${Date.now()}`
QrCode(eventId, userId, now) ==
    <<"E", "V", "T", "-">> \o Digits(eventId) \o <<"-", "U", "S", "R", "-">>
        \o Digits(userId) \o <<"-">> \o Digits(now)

\* A millisecond passes.
Tick ==
    /\ qrs.now < MaxClock
    /\ qrs' = [qrs EXCEPT !.now = @ + 1]
    /\ UNCHANGED <<catalogVars, ledgerVars, trip, client, authVars, everLunas>>

\* countQuery returns; a request that goes on reads Date.now() for its
\* qrCodeUnik before it awaits the INSERT.
QrCount(r) ==
    /\ CountStep(r)
    /\ qrs' = [qrs EXCEPT !.qrCodeUnik[r] =
                    IF req'[r].pc = "insert"
                    THEN QrCode(req[r].eventId, req[r].userId, NowBase + qrs.now)
                    ELSE @]

\* The INSERT writes the qrCodeUnik of the request.
QrInsert(r) ==
    /\ InsertStep(r)
    /\ qrs' = [qrs EXCEPT !.qr_code_unik = Append(@, qrs.qrCodeUnik[r])]

QrNext ==
    \/ \E r \in 1..MaxReq, u \in Registrants, e \in DOMAIN Event,
          t \in DOMAIN TiketTipe : RegisterTiketQuery(r, u, e, t)
    \/ \E r \in 1..MaxReq : RegisterCheck(r)
    \/ \E r \in 1..MaxReq : QrCount(r)
    \/ \E r \in 1..MaxReq : QrInsert(r)
    \/ \E r \in 1..MaxReq, ok \in BOOLEAN : RegisterSnap(r, ok)
    \/ \E r \in 1..MaxReq : RegisterThrow(r)
    \/ Tick

QrSpec == Init /\ [][QrNext]_vars

\* C29: every row has a qr_code_unik and no two rows share one.
C29_QrCodesUnique ==
    /\ Len(qrs.qr_code_unik) = Len(Registrasi)
    /\ \A i, j \in DOMAIN qrs.qr_code_unik :
            i # j => qrs.qr_code_unik[i] # qrs.qr_code_unik[j]

----------------------------------------------------------------------------
\* Claims about the auth routes.

\* The step is a request to an auth route arriving (and not a row leaving
\* the table or a new window of authLimiter, which keep authReq).
Deleted == \E u \in DOMAIN accounts : accounts[u].present /\ ~accounts'[u].present

Arrived(route) == authReq'.route = route /\ ~Deleted /\ hits' >= hits

\* The row the email of a request is registered with, if there is one.
Known(email) == UsersByEmail(accounts, NormalizeEmail(email))

\* C21: in every state, a login with a well-formed unknown email and any
\* password gets the same status and body as a login with a known email and
\* a wrong password.
C21_LoginDoesNotRevealEmail ==
    \A a \in LoginBodies, b \in LoginBodies :
        (/\ LoginBodyValid(a[1], a[2])
         /\ LoginBodyValid(b[1], b[2])
         /\ Known(a[1]) = {}
         /\ \E u \in Known(b[1]) : ~BcryptCompare(b[2], accounts[u].password))
            => LoginAnswer(accounts, Limited, a[1], a[2])
                    = LoginAnswer(accounts, Limited, b[1], b[2])

\* A login with a known email and a wrong password was answered 401 while
\* another email was unknown.
C21_Witness ==
    /\ authReq.route = "login"
    /\ authRes = ResSalah
    /\ \E u \in Known(authReq.email) :
            ~BcryptCompare(authReq.password, accounts[u].password)
    /\ \E e \in ValidEmails : Known(e) = {}

\* A register answered 201 has appended the row of its body: the email as
\* the handlers look it up, a hash of the password, the role of the body or
\* PESERTA when the body has none.
RegisterStores ==
    (Arrived("register") /\ authRes'.http = 201)
        => /\ Len(accounts') = Len(accounts) + 1
           /\ LET u == Len(accounts')
              IN  /\ accounts'[u].present
                  /\ accounts'[u].email = NormalizeEmail(authReq'.email)
                  /\ BcryptCompare(authReq'.password, accounts'[u].password)
                  /\ accounts'[u].role =
                        (IF authReq'.role = "none" THEN "PESERTA" ELSE authReq'.role)
                  /\ authRes'.user = PublicUser(accounts', u)

\* No step changes the email, the password or the role of a row.
RowsKeepCredentials ==
    \A u \in DOMAIN accounts :
        /\ u \in DOMAIN accounts'
        /\ accounts'[u].email = accounts[u].email
        /\ accounts'[u].password = accounts[u].password
        /\ accounts'[u].role = accounts[u].role

\* The login carries the email and the password of a row of the table.
SameCredentials(u) ==
    /\ u \in Known(authReq'.email)
    /\ BcryptCompare(authReq'.password, accounts[u].password)

LoginSucceeds(u) ==
    /\ authRes'.http = 200
    /\ authRes'.token = [kind |-> "jwt", userId |-> u, role |-> accounts[u].role]
    /\ authRes'.refreshToken.kind = "jwt"
    /\ authRes'.user.id = u

EmailsUnique ==
    \A u, v \in DOMAIN accounts :
        (u # v /\ accounts[u].present /\ accounts[v].present)
            => accounts[u].email # accounts[v].email

\* The register carries an email that is already in the table.
DuplicateEmail == Arrived("register") /\ Known(authReq'.email) # {}

BadSignature == authReq'.refreshToken.kind = "forged"

Expired ==
    authReq'.refreshToken.kind = "jwt" /\ authReq'.refreshToken.exp = "expired"

UserGone ==
    /\ authReq'.refreshToken.kind = "jwt"
    /\ authReq'.refreshToken.exp = "fresh"
    /\ ~accounts[authReq'.refreshToken.userId].present

\* C24 as stated: a refresh with a badly signed token, an expired token or a
\* token of a user who is gone is answered 401 or 403 and issues no access
\* token.
C24_RefreshFails401Or403 ==
    [][(Arrived("refresh") /\ (BadSignature \/ Expired \/ UserGone))
        => (authRes'.http \in {401, 403} /\ authRes'.token = NoAccessToken)]_vars

\* C24, amended: a badly signed or expired token is answered 403, the token
\* of a user who is gone 404; none of them issues an access token.
C24_RefreshFails403Or404 ==
    [][Arrived("refresh") =>
        /\ (BadSignature \/ Expired) => authRes' = ResRefreshInvalid
        /\ UserGone => authRes' = ResUserGone
        /\ (BadSignature \/ Expired \/ UserGone) => authRes'.token = NoAccessToken]_vars

\* A well signed, unexpired refresh token of a user who is gone was refused.
C24_Witness ==
    /\ authReq.route = "refresh"
    /\ authReq.refreshToken.kind = "jwt"
    /\ authReq.refreshToken.exp = "fresh"
    /\ ~accounts[authReq.refreshToken.userId].present
    /\ authRes = ResUserGone

----------------------------------------------------------------------------
\* The client after AuthModal's submit.

\* C30: whenever the app is in the logged-in state (a submit of AuthModal
\* succeeded: user stored, onAuthSuccess called), tokenStorage holds an
\* access token that the server issued, after a register as after a login.
C30_LoggedInHoldsServerToken ==
    client.user # 0 => (client.token.kind = "jwt" /\ client.token.userId = client.user)

====
